---- MODULE Spec2Model ----
(***************************************************************************)
(* The chat relay of End-to-End-LLM-ChatBot: the storage adapters          *)
(* (sqlite_db, aws_rds_db, mysql_workbench_db, postgre_db and the Mongo    *)
(* adapter used by the async service), the context assembly inside their   *)
(* fetch functions, and the two POST /chat request handlers                *)
(* (app.main + app.chatbot, app.api.fastapi_app + app.services.chatbot).   *)
(*                                                                         *)
(* Text is a sequence of one-character strings, so formatting, slicing and *)
(* joining are computed as the code computes them.                         *)
(***************************************************************************)
EXTENDS Integers, Sequences, FiniteSets, TLC

VARIABLES
    entry,              \* which program runs: "main", "fastapi", or the adapter module called directly
    backend,            \* the storage module behind it
    chat_history_limit, \* params.yaml chatbot.chat_history_limit
    output_limit,       \* params.yaml sqlite_params.output_limit
    mlflow_client,      \* app.main: TRUE when mlflow_init() succeeded at import
    table,              \* chat_history, rows in insertion order
    req,                \* the in-flight POST /chat requests, by worker slot
    started,            \* number of requests received so far
    lastOk,             \* per session, the latest request answered with 200
    lastOp              \* the most recent direct call of an adapter function and its result

vars == <<entry, backend, chat_history_limit, output_limit, mlflow_client,
          table, req, started, lastOk, lastOp>>

----------------------------------------------------------------------------
(* Bounds of the model *)

MaxRows == 3
MaxFetch == 2
MaxLimit == 1
MaxOutputLimit == 1
MaxRequests == 2

Slots == {"w1", "w2"}
Sessions == {"A", "B"}

----------------------------------------------------------------------------
(* Text *)

Whitespace == {" ", "\t", "\n"}

(* str.strip() == "" *)
IsBlank(s) == \A i \in 1..Len(s) : s[i] \in Whitespace

Max(a, b) == IF a >= b THEN a ELSE b
Min(a, b) == IF a <= b THEN a ELSE b

(* Python's b[-n:] for n >= 0: -0 is 0, so b[-0:] is the whole of b *)
TailSlice(b, n) ==
    IF n = 0 THEN b ELSE SubSeq(b, Max(1, Len(b) - n + 1), Len(b))

RECURSIVE Join(_, _)
(* sep.join(parts) *)
Join(parts, sep) ==
    IF Len(parts) = 0 THEN <<>>
    ELSE IF Len(parts) = 1 THEN parts[1]
    ELSE parts[1] \o sep \o Join(Tail(parts), sep)

RECURSIVE Reverse(_)
(* list.reverse() *)
Reverse(s) ==
    IF Len(s) = 0 THEN <<>> ELSE Append(Reverse(Tail(s)), Head(s))

UserLabel == <<"U", "s", "e", "r", ":", " ">>
AssistantLabel == <<"A", "s", "s", "i", "s", "t", "a", "n", "t", ":", " ">>
Newline == <<"\n">>

(* "I'm sorry, I couldn't generate a valid response." *)
FallbackResponse ==
    <<"I", "'", "m", " ", "s", "o", "r", "r", "y", ",", " ",
      "I", " ", "c", "o", "u", "l", "d", "n", "'", "t", " ",
      "g", "e", "n", "e", "r", "a", "t", "e", " ", "a", " ",
      "v", "a", "l", "i", "d", " ",
      "r", "e", "s", "p", "o", "n", "s", "e", ".">>

----------------------------------------------------------------------------
(* The chat_history table *)

(* Failures the store can raise inside one adapter call: the driver's error *)
(* while connecting, the driver's error while executing, any other error.   *)
Failures == {"connect_error", "query_error", "unexpected"}
Outcomes == {"ok"} \cup Failures

Row(id, session_id, user_input, chatbot_response) ==
    [id |-> id, session_id |-> session_id,
     user_input |-> user_input, chatbot_response |-> chatbot_response]

RowSet(t) == {t[i] : i \in DOMAIN t}

(* id INTEGER PRIMARY KEY AUTOINCREMENT / AUTO_INCREMENT / SERIAL *)
NextId(t) ==
    IF Len(t) = 0 THEN 1
    ELSE 1 + (CHOOSE m \in {r.id : r \in RowSet(t)} :
                 \A r \in RowSet(t) : r.id <= m)

(* An insert that replaces the exchanges of the session (an upsert keyed   *)
(* by session)                                                             *)
InsertRowUpsert(t, session_id, user_input, chatbot_response) ==
    Append(SelectSeq(t, LAMBDA x : x.session_id # session_id),
           Row(NextId(t), session_id, user_input, chatbot_response))

(* An insert that replaces what the table held *)
InsertRowReplacing(t, session_id, user_input, chatbot_response) ==
    <<Row(NextId(t), session_id, user_input, chatbot_response)>>

(* INSERT INTO chat_history (user_input, chatbot_response) VALUES (?, ?).  *)
(* The SQL tables have no session column: session_id on a row of theirs    *)
(* only remembers whose request wrote it and no query reads it.            *)
InsertRow(t, session_id, user_input, chatbot_response) ==
    Append(t, Row(NextId(t), session_id, user_input, chatbot_response))

RECURSIVE OrderByIdAsc(_)
(* ORDER BY id ASC, the order a query without DESC would give *)
OrderByIdAsc(S) ==
    IF S = {} THEN <<>>
    ELSE LET oldest == CHOOSE x \in S : \A y \in S : x.id <= y.id
         IN  <<oldest>> \o OrderByIdAsc(S \ {oldest})

RECURSIVE OrderByIdDesc(_)
(* ORDER BY id DESC *)
OrderByIdDesc(S) ==
    IF S = {} THEN <<>>
    ELSE LET newest == CHOOSE x \in S : \A y \in S : y.id <= x.id
         IN  <<newest>> \o OrderByIdDesc(S \ {newest})

(* LIMIT n *)
Limit(s, n) == SubSeq(s, 1, Min(n, Len(s)))

(* The query without rows.reverse() *)
RecentRowsNotReversed(t, limit) == Limit(OrderByIdDesc(RowSet(t)), limit)

(* The query with LIMIT one short *)
RecentRowsOneShort(t, limit) ==
    Reverse(Limit(OrderByIdDesc(RowSet(t)), limit - 1))

(* SELECT user_input, chatbot_response FROM chat_history                   *)
(* ORDER BY id DESC LIMIT ?   followed by   rows.reverse()                 *)
RecentRows(t, limit) == Reverse(Limit(OrderByIdDesc(RowSet(t)), limit))

(* The same, over the documents of one session *)
RecentRowsOfSession(t, session_id, limit) ==
    Reverse(Limit(OrderByIdDesc({r \in RowSet(t) : r.session_id = session_id}),
                  limit))

(* f"User: {u}\n Assistant: {b[-output_limit:]}" *)
FormatTruncated(row, n) ==
    UserLabel \o row.user_input \o Newline \o <<" ">> \o AssistantLabel
        \o TailSlice(row.chatbot_response, n)

(* f"User: {u}\nAssistant: {b}" *)
FormatFull(row) ==
    UserLabel \o row.user_input \o Newline \o AssistantLabel
        \o row.chatbot_response

Fetched(rows, context) == [raised |-> FALSE, rows |-> rows, context |-> context]
FetchedNothing == [raised |-> FALSE, rows |-> <<>>, context |-> <<>>]
FetchRaised == [raised |-> TRUE, rows |-> <<>>, context |-> <<>>]

(* app.sqlite_db.fetch_recent_chats: every except clause returns "" *)
sqlite_fetch_recent_chats(t, limit, n, outcome) ==
    IF outcome = "ok"
    THEN LET rows == RecentRows(t, limit)
         IN  Fetched(rows, Join([i \in DOMAIN rows |-> FormatTruncated(rows[i], n)],
                                Newline))
    ELSE FetchedNothing

(* app.aws_rds_db.fetch_recent_chats: except Exception returns "" *)
rds_fetch_recent_chats(t, limit, outcome) ==
    IF outcome = "ok"
    THEN LET rows == RecentRows(t, limit)
         IN  Fetched(rows, Join([i \in DOMAIN rows |-> FormatFull(rows[i])], Newline))
    ELSE FetchedNothing

(* app.mysql_workbench_db.fetch_chathistory: both except clauses raise *)
mysql_fetch_chathistory(t, limit, outcome) ==
    IF outcome = "ok"
    THEN LET rows == RecentRows(t, limit)
         IN  Fetched(rows, Join([i \in DOMAIN rows |-> FormatFull(rows[i])], Newline))
    ELSE FetchRaised

(* app.postgre_db.fetch_chathistory: psycopg2.Error is raised again, any   *)
(* other exception returns ""                                              *)
postgre_fetch_chathistory(t, limit, outcome) ==
    IF outcome = "ok"
    THEN LET rows == RecentRows(t, limit)
         IN  Fetched(rows, Join([i \in DOMAIN rows |-> FormatFull(rows[i])], Newline))
    ELSE IF outcome \in {"connect_error", "query_error"} THEN FetchRaised
    ELSE FetchedNothing

(* AsyncMongoDatabase.fetch_recent_chats(session_id, limit) *)
mongo_fetch_recent_chats(t, session_id, limit, outcome) ==
    IF outcome = "ok"
    THEN LET rows == RecentRowsOfSession(t, session_id, limit)
         IN  Fetched(rows, Join([i \in DOMAIN rows |-> FormatFull(rows[i])], Newline))
    ELSE FetchedNothing

Backends == {"sqlite", "rds", "mysql", "postgre", "mongo"}

(* The fetch function of the configured storage module *)
FetchRecent(bk, t, session_id, limit, n, outcome) ==
    CASE bk = "sqlite"  -> sqlite_fetch_recent_chats(t, limit, n, outcome)
      [] bk = "rds"     -> rds_fetch_recent_chats(t, limit, outcome)
      [] bk = "mysql"   -> mysql_fetch_chathistory(t, limit, outcome)
      [] bk = "postgre" -> postgre_fetch_chathistory(t, limit, outcome)
      [] bk = "mongo"   -> mongo_fetch_recent_chats(t, session_id, limit, outcome)

(* Whether a call had opened its connection when it ended with outcome:    *)
(* not when connecting failed; an error that is not the driver's can come  *)
(* before the connection exists (aws_rds_db.create_connection swallows it  *)
(* and returns None) or after                                              *)
ConnectionOpened(outcome) ==
    CASE outcome = "connect_error" -> {FALSE}
      [] outcome = "unexpected" -> {FALSE, TRUE}
      [] OTHER -> {TRUE}

(* app.sqlite_db, all three functions: conn.close() at the end of the try  *)
(* and again in finally: if 'conn' in locals(): conn.close()               *)
sqlite_connections_left(outcome) == {0}

(* app.aws_rds_db, all three functions: conn.close() at the end of the try *)
(* only; the except clause logs and raises or returns ""                   *)
rds_connections_left(outcome) ==
    {IF opened /\ outcome # "ok" THEN 1 ELSE 0 : opened \in ConnectionOpened(outcome)}

(* app.mysql_workbench_db, likewise *)
mysql_connections_left(outcome) ==
    {IF opened /\ outcome # "ok" THEN 1 ELSE 0 : opened \in ConnectionOpened(outcome)}

(* app.postgre_db, likewise *)
postgre_connections_left(outcome) ==
    {IF opened /\ outcome # "ok" THEN 1 ELSE 0 : opened \in ConnectionOpened(outcome)}

(* AsyncMongoDatabase holds one client for all its calls: no call opens a  *)
(* connection of its own                                                   *)
mongo_connections_left(outcome) == {0}

(* The connections a call of the configured storage module can leave open  *)
(* when it returns or raises                                               *)
ConnectionsLeft(bk, outcome) ==
    CASE bk = "sqlite"  -> sqlite_connections_left(outcome)
      [] bk = "rds"     -> rds_connections_left(outcome)
      [] bk = "mysql"   -> mysql_connections_left(outcome)
      [] bk = "postgre" -> postgre_connections_left(outcome)
      [] bk = "mongo"   -> mongo_connections_left(outcome)

Saved(t) == [raised |-> FALSE, stored |-> TRUE, table |-> t]
SaveRaised(t) == [raised |-> TRUE, stored |-> FALSE, table |-> t]
SaveSkipped(t) == [raised |-> FALSE, stored |-> FALSE, table |-> t]

(* app.sqlite_db.save_chat_history: every except clause raises, and nothing *)
(* is committed when the call fails. A value that is not text cannot be     *)
(* bound to the TEXT NOT NULL column.                                       *)
sqlite_save_chat_history(t, session_id, user_input, response, outcome) ==
    IF outcome = "ok" /\ response.isStr
    THEN Saved(InsertRow(t, session_id, user_input, response.value))
    ELSE SaveRaised(t)

(* app.aws_rds_db.save_chat: except Exception raises *)
rds_save_chat(t, session_id, user_input, response, outcome) ==
    IF outcome = "ok" /\ response.isStr
    THEN Saved(InsertRow(t, session_id, user_input, response.value))
    ELSE SaveRaised(t)

(* app.mysql_workbench_db.save_chathistory: both except clauses raise *)
mysql_save_chathistory(t, session_id, user_input, response, outcome) ==
    IF outcome = "ok" /\ response.isStr
    THEN Saved(InsertRow(t, session_id, user_input, response.value))
    ELSE SaveRaised(t)

(* app.postgre_db.save_chathistory: both except clauses raise *)
postgre_save_chathistory(t, session_id, user_input, response, outcome) ==
    IF outcome = "ok" /\ response.isStr
    THEN Saved(InsertRow(t, session_id, user_input, response.value))
    ELSE SaveRaised(t)

(* A save_chat that lets the driver's error through *)
mongo_save_chat_raises(t, session_id, user_input, response, outcome) ==
    IF outcome = "ok"
    THEN Saved(InsertRow(t, session_id, user_input, response.value))
    ELSE SaveRaised(t)

(* AsyncMongoDatabase.save_chat(session_id, question, response): a failed  *)
(* write is logged and the caller continues                                *)
mongo_save_chat(t, session_id, user_input, response, outcome) ==
    IF outcome = "ok"
    THEN Saved(InsertRow(t, session_id, user_input, response.value))
    ELSE SaveSkipped(t)

(* The append function of the configured storage module *)
SaveChat(bk, t, session_id, user_input, response, outcome) ==
    CASE bk = "sqlite"  -> sqlite_save_chat_history(t, session_id, user_input, response, outcome)
      [] bk = "rds"     -> rds_save_chat(t, session_id, user_input, response, outcome)
      [] bk = "mysql"   -> mysql_save_chathistory(t, session_id, user_input, response, outcome)
      [] bk = "postgre" -> postgre_save_chathistory(t, session_id, user_input, response, outcome)
      [] bk = "mongo"   -> mongo_save_chat(t, session_id, user_input, response, outcome)

(* A value of the program: text or not *)
Text(v) == [isStr |-> TRUE, value |-> v]
NoText == [isStr |-> FALSE, value |-> <<>>]

(* Python truthiness of a model result: "" and None are falsy *)
Truthy(x) == x.isStr /\ Len(x.value) > 0

----------------------------------------------------------------------------
(* Exceptions and their mapping to HTTP *)

(* An exception: its class as the except clauses see it, and where it arose *)
Exc(cls, origin) == [cls |-> cls, origin |-> origin]

(* What constructing and invoking the chain can raise, by the class the    *)
(* handlers' except clauses distinguish                                    *)
BackendErrors == {"ValueError", "KeyError", "Exception"}

(* app.chatbot.generate_response, except clauses: ValueError and KeyError  *)
(* are raised again, anything else becomes RuntimeError(f"...: {e}")       *)
legacy_reraise(e) ==
    IF e.cls \in {"ValueError", "KeyError"} THEN e
    ELSE Exc("RuntimeError", e.origin)

(* app.main.chat, except clauses *)
main_chat_error(e) ==
    IF e.cls = "ValueError"
    THEN [status |-> 400, detail |-> e.origin]
    ELSE [status |-> 500, detail |-> "generic"]

(* app.services.chatbot.Chatbot.generate_response: except Exception raises *)
(* AppException(e, sys)                                                    *)
service_reraise(e) == Exc("AppException", e.origin)

(* app.core.exception.AppException derives from Exception, not from       *)
(* ValueError; str(e) carries the text of the error it wraps               *)
AppExceptionIsValueError == FALSE

(* str(AppException(e, sys)): the message of the error it wraps *)
AppExceptionText(e) == e.origin

(* app.api.fastapi_app.chat, except clauses, in their order: detail=str(e) *)
(* for ValueError and AppException, a fixed message for anything else      *)
fastapi_chat_error(e) ==
    IF e.cls = "ValueError" \/ (e.cls = "AppException" /\ AppExceptionIsValueError)
    THEN [status |-> 400, detail |-> e.origin]
    ELSE IF e.cls = "AppException"
    THEN [status |-> 500, detail |-> AppExceptionText(e)]
    ELSE [status |-> 500, detail |-> "generic"]

(* The response to an exception raised inside generate_response *)
ErrorResponse(en, e) ==
    IF en = "main" THEN main_chat_error(legacy_reraise(e))
    ELSE fastapi_chat_error(service_reraise(e))

----------------------------------------------------------------------------
(* Requests *)

Questions == {<<>>, <<" ">>, <<"a">>}

(* What the chain can return *)
ModelOutputs == {Text(<<>>), Text(<<"x", "y", "z">>), NoText}

NoPrior == [answered |-> FALSE, row_id |-> 0, question |-> <<>>, response |-> <<>>]

(* A worker slot with no request. Besides the handler's locals a slot      *)
(* records what its request did: the calls it made, whether the table was  *)
(* empty when it fetched (saw_none), the row it appended (row_id), the     *)
(* connections its store calls left open (conns_open).                     *)
Idle ==
    [pc |-> "idle", session_id |-> "A", question |-> <<>>,
     context |-> <<>>, rows |-> <<>>, fetch_failed |-> FALSE,
     response |-> NoText, status |-> 0, detail |-> "none",
     row_id |-> 0, prior |-> NoPrior, log_outcome |-> "none", saw_none |-> FALSE,
     conns_open |-> 0,
     fetch_calls |-> 0, model_calls |-> 0, save_calls |-> 0]

(* The request leaves the handler: its locals are gone, the HTTP response  *)
(* and what the request did remain                                         *)
Responded(r, status, detail, response) ==
    [r EXCEPT !.pc = "responded", !.status = status, !.detail = detail,
              !.response = response, !.context = <<>>, !.rows = <<>>,
              !.prior = NoPrior]

(* The error is logged and the handler carries on to the append *)
FailedCarriesOn(r, e) == [r EXCEPT !.pc = "persisting"]

Failed(r, e) ==
    LET err == ErrorResponse(entry, e)
    IN  Responded(r, err.status, err.detail, NoText)

TypeOK ==
    /\ entry \in {"main", "fastapi", "adapter"}
    /\ backend \in Backends
    /\ chat_history_limit \in 1..MaxLimit
    /\ output_limit \in 0..MaxOutputLimit
    /\ mlflow_client \in BOOLEAN
    /\ Len(table) <= Max(MaxRows, MaxRequests)
    /\ started \in 0..MaxRequests
    /\ \A w \in Slots : req[w].pc \in
          {"idle", "received", "validating", "fetching_context",
           "invoking_model", "persisting", "logging", "responded"}

Init ==
    /\ entry \in {"main", "fastapi", "adapter"}
    /\ backend \in Backends
    /\ entry = "main" => backend = "sqlite"
    /\ entry = "fastapi" => backend = "mongo"
    /\ chat_history_limit \in 1..MaxLimit
    /\ entry = "adapter" => chat_history_limit = 1
    /\ output_limit \in 0..MaxOutputLimit
    /\ backend # "sqlite" => output_limit = 0
    /\ mlflow_client \in BOOLEAN
    /\ entry # "main" => mlflow_client = FALSE
    /\ table = <<>>
    /\ req = [w \in Slots |-> Idle]
    /\ started = 0
    /\ lastOk = [s \in Sessions |-> NoPrior]
    /\ lastOp = [op |-> "none"]

Config == <<entry, backend, chat_history_limit, output_limit, mlflow_client>>

(* POST /chat arrives and a worker picks it up *)
Receive(w, session_id, question) ==
    /\ entry \in {"main", "fastapi"}
    /\ req[w].pc \in {"idle", "responded"}
    /\ started < MaxRequests
    /\ req' = [req EXCEPT ![w] =
                 [Idle EXCEPT !.pc = "received", !.session_id = session_id,
                              !.question = question,
                              !.prior = lastOk[session_id]]]
    /\ started' = started + 1
    /\ UNCHANGED <<Config, table, lastOk, lastOp>>

(* The body is parsed into ChatRequest. app.api.fastapi_app declares       *)
(* question with Field(..., min_length=1): a shorter one is refused by the *)
(* framework with 422 before chat() runs. app.main declares a plain str.   *)
ParseBody(w) ==
    /\ req[w].pc = "received"
    /\ req' = [req EXCEPT ![w] =
                 IF entry = "fastapi" /\ Len(@.question) < 1
                 THEN Responded(@, 422, "validation", NoText)
                 ELSE [@ EXCEPT !.pc = "validating"]]
    /\ UNCHANGED <<Config, table, started, lastOk, lastOp>>

(* A check that refuses the empty question only *)
QuestionRejectedIfEmpty(question) == Len(question) = 0

(* app.chatbot: if not question or not question.strip()                    *)
(* app.services.chatbot: if not self.question.strip()                      *)
QuestionRejected(question) == Len(question) = 0 \/ IsBlank(question)

(* generate_response, the check of the question *)
Validate(w) ==
    /\ req[w].pc = "validating"
    /\ req' = [req EXCEPT ![w] =
                 IF QuestionRejected(@.question)
                 THEN Failed(@, Exc("ValueError", "validation"))
                 ELSE [@ EXCEPT !.pc = "fetching_context"]]
    /\ UNCHANGED <<Config, table, started, lastOk, lastOp>>

(* generate_response, context = fetch_recent_chats(...) *)
FetchContext(w, outcome) ==
    /\ req[w].pc = "fetching_context"
    /\ \E left \in ConnectionsLeft(backend, outcome) :
         LET got == FetchRecent(backend, table, req[w].session_id,
                                chat_history_limit, output_limit, outcome)
         IN  req' = [req EXCEPT ![w] =
                       IF got.raised
                       THEN Failed([@ EXCEPT !.fetch_calls = @ + 1,
                                             !.saw_none = (Len(table) = 0),
                                             !.conns_open = @ + left],
                                   Exc("Exception", "storage"))
                       ELSE [@ EXCEPT !.pc = "invoking_model",
                                      !.context = got.context,
                                      !.rows = got.rows,
                                      !.fetch_failed = (outcome # "ok"),
                                      !.fetch_calls = @ + 1,
                                      !.saw_none = (Len(table) = 0),
                                      !.conns_open = @ + left]]
    /\ UNCHANGED <<Config, table, started, lastOk, lastOp>>

(* app.services.chatbot: if not response or not isinstance(response, str)  *)
Normalize(response) ==
    IF ~Truthy(response) THEN Text(FallbackResponse) ELSE response

(* What generate_response holds as response after the chain returned:      *)
(* app.chatbot uses it as it is, app.services.chatbot normalises it        *)
ResponseOf(en, output) == IF en = "fastapi" THEN Normalize(output) ELSE output

(* generate_response, the chain is built and invoked and returns *)
InvokeModel(w, output) ==
    /\ req[w].pc = "invoking_model"
    /\ req' = [req EXCEPT ![w] =
                 [@ EXCEPT !.pc = "persisting",
                           !.response = ResponseOf(entry, output),
                           !.context = <<>>, !.rows = <<>>,
                           !.prior = NoPrior,
                           !.model_calls = @ + 1]]
    /\ UNCHANGED <<Config, table, started, lastOk, lastOp>>

(* generate_response, the chain is built and invoked and raises *)
InvokeModelRaises(w, cls) ==
    /\ req[w].pc = "invoking_model"
    /\ req' = [req EXCEPT ![w] =
                 Failed([@ EXCEPT !.model_calls = @ + 1], Exc(cls, "model"))]
    /\ UNCHANGED <<Config, table, started, lastOk, lastOp>>

(* The latest 200 of a session, as the next request of that session finds it *)
Answered(r) ==
    [answered |-> TRUE, row_id |-> r.row_id,
     question |-> r.question, response |-> r.response.value]

(* generate_response, save_chat_history(question, response) /              *)
(* await mongo.save_chat(session_id, question, response), and the return.  *)
(* app.api.fastapi_app.chat answers 200 with the returned response;        *)
(* app.main.chat goes on to log the chat.                                  *)
Persist(w, outcome) ==
    /\ req[w].pc = "persisting"
    /\ \E left \in ConnectionsLeft(backend, outcome) :
       LET r == req[w]
           saved == SaveChat(backend, table, r.session_id, r.question,
                             r.response, outcome)
           called == [r EXCEPT !.save_calls = @ + 1,
                               !.row_id = IF saved.stored
                                          THEN saved.table[Len(saved.table)].id
                                          ELSE 0,
                               !.conns_open = @ + left]
       IN  /\ table' = saved.table
           /\ IF saved.raised
              THEN /\ req' = [req EXCEPT ![w] =
                                Failed(called, Exc("Exception", "storage"))]
                   /\ UNCHANGED lastOk
              ELSE IF entry = "fastapi"
              THEN /\ req' = [req EXCEPT ![w] =
                                Responded(called, 200, "none", r.response)]
                   /\ lastOk' = [lastOk EXCEPT ![r.session_id] = Answered(called)]
              ELSE /\ req' = [req EXCEPT ![w] = [called EXCEPT !.pc = "logging"]]
                   /\ UNCHANGED lastOk
    /\ UNCHANGED <<Config, started, lastOp>>

(* app.utils.log_to_mlflow: if not all([mlflow_client, model_name,         *)
(* question, response]) raise ValueError                                   *)
MlflowRejects(question, response) ==
    ~(Len(question) > 0 /\ Truthy(response))

(* app.main.chat after generate_response returned: log_to_csv, then        *)
(* log_to_mlflow when the client exists, then the 200 response. Both       *)
(* loggers raise what went wrong and chat()'s except clauses answer.       *)
LogChat(w, outcome) ==
    /\ entry = "main"
    /\ req[w].pc = "logging"
    /\ outcome \in {"ok", "csv_error", "mlflow_error"}
    /\ outcome = "mlflow_error" => mlflow_client
    /\ LET r == req[w]
           err == IF outcome = "csv_error"
                  THEN main_chat_error(Exc("OSError", "logging"))
                  ELSE IF mlflow_client /\ MlflowRejects(r.question, r.response)
                  THEN main_chat_error(Exc("ValueError", "logging"))
                  ELSE IF outcome = "mlflow_error"
                  THEN main_chat_error(Exc("MlflowException", "logging"))
                  ELSE [status |-> 200, detail |-> "none"]
           logged == [r EXCEPT !.log_outcome = outcome]
       IN  IF err.status = 200
           THEN /\ req' = [req EXCEPT ![w] =
                             Responded(logged, 200, "none", r.response)]
                /\ lastOk' = [lastOk EXCEPT ![r.session_id] = Answered(r)]
           ELSE /\ req' = [req EXCEPT ![w] =
                             Responded(logged, err.status, err.detail, NoText)]
                /\ UNCHANGED lastOk
    /\ UNCHANGED <<Config, table, started, lastOp>>

----------------------------------------------------------------------------
(* The adapter functions called directly *)

AdapterSessions == IF backend = "mongo" THEN Sessions ELSE {"A"}
AdapterInputs == {<<"a">>}
AdapterResponses == {<<"x">>, <<"x", "y", "z">>}

(* An initialisation that drops the table and creates it again *)
database_init_recreate(t, outcome) ==
    [raised |-> outcome # "ok", table |-> IF outcome = "ok" THEN <<>> ELSE t]

(* sqlite_init / database_init: CREATE TABLE IF NOT EXISTS chat_history;   *)
(* every except clause raises                                              *)
database_init(t, outcome) ==
    [raised |-> outcome # "ok", table |-> t]

AdapterInit(outcome) ==
    /\ entry = "adapter"
    /\ \E left \in ConnectionsLeft(backend, outcome) :
       LET done == database_init(table, outcome)
       IN  /\ table' = done.table
           /\ lastOp' = [op |-> "init", raised |-> done.raised,
                         conns_open |-> left]
    /\ UNCHANGED <<Config, req, started, lastOk>>

AdapterSave(session_id, user_input, response, outcome) ==
    /\ entry = "adapter"
    /\ Len(table) < MaxRows
    /\ \E left \in ConnectionsLeft(backend, outcome) :
       LET saved == SaveChat(backend, table, session_id, user_input,
                             Text(response), outcome)
       IN  /\ table' = saved.table
           /\ lastOp' = [op |-> "save", session_id |-> session_id,
                         user_input |-> user_input, response |-> response,
                         raised |-> saved.raised, stored |-> saved.stored,
                         conns_open |-> left]
    /\ UNCHANGED <<Config, req, started, lastOk>>

AdapterFetch(session_id, limit, outcome) ==
    /\ entry = "adapter"
    /\ \E left \in ConnectionsLeft(backend, outcome) :
       LET got == FetchRecent(backend, table, session_id, limit,
                              output_limit, outcome)
       IN  lastOp' = [op |-> "fetch", session_id |-> session_id,
                      limit |-> limit, outcome |-> outcome,
                      raised |-> got.raised, rows |-> got.rows,
                      context |-> got.context, conns_open |-> left,
                      after |-> IF lastOp.op = "save" THEN lastOp
                                ELSE [op |-> lastOp.op]]
    /\ UNCHANGED <<Config, table, req, started, lastOk>>

----------------------------------------------------------------------------

Next ==
    \/ \E w \in Slots, s \in Sessions, q \in Questions : Receive(w, s, q)
    \/ \E w \in Slots : ParseBody(w)
    \/ \E w \in Slots : Validate(w)
    \/ \E w \in Slots, o \in Outcomes : FetchContext(w, o)
    \/ \E w \in Slots, out \in ModelOutputs : InvokeModel(w, out)
    \/ \E w \in Slots, cls \in BackendErrors : InvokeModelRaises(w, cls)
    \/ \E w \in Slots, o \in Outcomes : Persist(w, o)
    \/ \E w \in Slots, o \in {"ok", "csv_error", "mlflow_error"} : LogChat(w, o)
    \/ \E o \in Outcomes : AdapterInit(o)
    \/ \E s \in AdapterSessions, u \in AdapterInputs, r \in AdapterResponses,
          o \in Outcomes : AdapterSave(s, u, r, o)
    \/ \E s \in AdapterSessions, k \in 1..MaxFetch, o \in Outcomes :
          AdapterFetch(s, k, o)

Spec == Init /\ [][Next]_vars

(* What the handler of the request in slot w can do next *)
HandlerStep(w) ==
    \/ ParseBody(w)
    \/ Validate(w)
    \/ \E o \in Outcomes : FetchContext(w, o)
    \/ \E out \in ModelOutputs : InvokeModel(w, out)
    \/ \E cls \in BackendErrors : InvokeModelRaises(w, cls)
    \/ \E o \in Outcomes : Persist(w, o)
    \/ \E o \in {"ok", "csv_error", "mlflow_error"} : LogChat(w, o)

(* A handler is a sequential function on a thread of the server's pool or  *)
(* a task of its event loop: it is scheduled, and each call it makes       *)
(* returns or raises.                                                      *)
(* The server alone, each handler activation serving one request: what a   *)
(* handler does is the same whichever request used its slot before,        *)
(* Receive starts it afresh                                                *)
ServerInit == Init /\ entry \in {"main", "fastapi"}

ServerNext ==
    \/ \E w \in Slots, s \in Sessions, q \in Questions :
          req[w].pc = "idle" /\ Receive(w, s, q)
    \/ \E w \in Slots : HandlerStep(w)

FairSpec ==
    /\ ServerInit
    /\ [][ServerNext]_vars
    /\ \A w \in Slots : WF_vars(HandlerStep(w))

----------------------------------------------------------------------------
(* Properties *)

SqlBackends == {"sqlite", "rds", "mysql", "postgre"}

(* Where a fetched row sits in the table, 0 when it is not there *)
PositionOf(row) ==
    IF \E p \in DOMAIN table : table[p] = row
    THEN CHOOSE p \in DOMAIN table : table[p] = row
    ELSE 0

(* rows are rows of the table, in the order they were appended *)
InAppendOrder(rows) ==
    \A i \in DOMAIN rows :
        /\ PositionOf(rows[i]) > 0
        /\ \A j \in DOMAIN rows : i < j => PositionOf(rows[i]) < PositionOf(rows[j])

(* C1: a fetch with limit K returns at most K exchanges, and they appear   *)
(* oldest first, in the order they were appended, although the query reads *)
(* them newest first. Stated of every direct fetch and of every fetch a    *)
(* request made.                                                           *)
C1_FetchBoundedOldestFirst ==
    /\ lastOp.op = "fetch" =>
          /\ Len(lastOp.rows) <= lastOp.limit
          /\ InAppendOrder(lastOp.rows)
    /\ \A w \in Slots :
          req[w].pc = "invoking_model" =>
              /\ Len(req[w].rows) <= chat_history_limit
              /\ InAppendOrder(req[w].rows)

(* A fetch of two of three rows of a SQL table: LIMIT cut one, and the     *)
(* order of the two is visible                                             *)
C1_Witness ==
    /\ backend \in SqlBackends
    /\ lastOp.op = "fetch"
    /\ lastOp.limit = 2
    /\ Len(table) = 3
    /\ Len(lastOp.rows) = 2

(* The last direct call was a fetch with limit 1, straight after a         *)
(* successful append for the same session                                  *)
FetchOneAfterAppend ==
    /\ lastOp.op = "fetch"
    /\ lastOp.limit = 1
    /\ lastOp.after.op = "save"
    /\ lastOp.after.stored
    /\ lastOp.after.session_id = lastOp.session_id

(* The fetch returned the exchange just appended and nothing else *)
ReturnedJustAppended ==
    /\ Len(lastOp.rows) = 1
    /\ lastOp.rows[1] = table[Len(table)]
    /\ lastOp.rows[1].user_input = lastOp.after.user_input
    /\ lastOp.rows[1].chatbot_response = lastOp.after.response

C3_SessionIsolation ==
    \A w \in Slots :
        req[w].pc = "invoking_model" =>
            \A i \in DOMAIN req[w].rows :
                req[w].rows[i].session_id = req[w].session_id

(* The exchange of the session's previous answered request is among rows *)
IncludesPrior(rows, prior) ==
    \E i \in DOMAIN rows :
        /\ rows[i].user_input = prior.question
        /\ rows[i].chatbot_response = prior.response

RowsRead(w) ==
    IF backend = "mongo"
    THEN {r \in RowSet(table) : r.session_id = req[w].session_id}
    ELSE RowSet(table)

NewerThanPrior(w) ==
    Cardinality({r \in RowsRead(w) : r.id > req[w].prior.row_id})

C4_FetchStep(w) ==
    (/\ req[w].pc = "fetching_context"
     /\ req'[w].pc = "invoking_model"
     /\ req[w].prior.answered
     /\ req[w].prior.row_id # 0
     /\ ~req'[w].fetch_failed
     /\ NewerThanPrior(w) < chat_history_limit)
    => \E i \in DOMAIN req'[w].rows :
          /\ req'[w].rows[i].id = req[w].prior.row_id
          /\ req'[w].rows[i].user_input = req[w].prior.question
          /\ req'[w].rows[i].chatbot_response = req[w].prior.response

C5_BlankQuestionIs400 ==
    \A w \in Slots :
        (req[w].pc = "responded" /\ IsBlank(req[w].question)
            /\ req[w].status # 422) =>
            /\ req[w].status = 400
            /\ req[w].row_id = 0

(* The model call of request w raised: it was made and nothing was returned *)
(* to persist                                                               *)
ModelRaised(w) ==
    /\ req[w].pc = "responded"
    /\ req[w].model_calls = 1
    /\ req[w].save_calls = 0

(* C6: when the model call raises, the request is answered with 500 and    *)
(* adds no exchange to the history.                                        *)
C6_ModelErrorIs500 ==
    \A w \in Slots :
        ModelRaised(w) => (req[w].status = 500 /\ req[w].row_id = 0)

(* Request w had a valid question, its fetch and its append succeeded, the *)
(* model returned, and neither the CSV log nor MLflow was out of order     *)
AllSucceeded(w) ==
    /\ req[w].pc = "responded"
    /\ ~IsBlank(req[w].question)
    /\ ~req[w].fetch_failed
    /\ req[w].model_calls = 1
    /\ req[w].row_id # 0
    /\ req[w].log_outcome \in {"none", "ok"}

(* C7: for a valid question, when the model call and the store operations  *)
(* succeed the answer is 200 with a non-empty response string, whatever    *)
(* the model returned.                                                     *)
C7_SuccessIs200NonEmpty ==
    \A w \in Slots :
        AllSucceeded(w) => (req[w].status = 200 /\ Truthy(req[w].response))

(* C8: every persisted exchange has a non-empty chatbot_response.          *)
C8_PersistedResponseNonEmpty ==
    \A i \in DOMAIN table : Len(table[i].chatbot_response) > 0

(* C9: a store failure during fetch makes fetch return the empty context   *)
(* instead of raising, in every storage module, and the request goes on to *)
(* invoke the model with the empty context.                                *)
C9_FetchFailureDegrades ==
    /\ (lastOp.op = "fetch" /\ lastOp.outcome # "ok") =>
          (~lastOp.raised /\ lastOp.context = <<>>)
    /\ \A w \in Slots :
          req[w].fetch_failed =>
              \/ req[w].pc = "invoking_model" /\ req[w].context = <<>>
              \/ req[w].model_calls = 1

(* "User: u\nAssistant: r" *)
SpecLine(row) ==
    <<"U", "s", "e", "r", ":", " ">> \o row.user_input
        \o <<"\n", "A", "s", "s", "i", "s", "t", "a", "n", "t", ":", " ">>
        \o row.chatbot_response

(* No response among rows is longer than the cap the module applies *)
NoTruncation(rows) ==
    backend = "sqlite" =>
        \A i \in DOMAIN rows : Len(rows[i].chatbot_response) <= output_limit

(* C10: with no truncation in effect, the context of a fetch is exactly    *)
(* the lines "User: u\nAssistant: r" of its exchanges, oldest first,       *)
(* joined by one newline; for no exchanges it is the empty string.         *)
C10_ContextFormat ==
    (lastOp.op = "fetch" /\ lastOp.outcome = "ok" /\ NoTruncation(lastOp.rows)) =>
        lastOp.context =
            Join([i \in DOMAIN lastOp.rows |-> SpecLine(lastOp.rows[i])], <<"\n">>)

(* The last min(L, len(r)) characters of r *)
LastChars(r, L) == SubSeq(r, Len(r) - Min(L, Len(r)) + 1, Len(r))

(* A line of the context whose response is cut to its last L characters;   *)
(* gap is what stands between the newline and the Assistant label          *)
CappedLine(row, L, gap) ==
    <<"U", "s", "e", "r", ":", " ">> \o row.user_input \o <<"\n">> \o gap
        \o <<"A", "s", "s", "i", "s", "t", "a", "n", "t", ":", " ">>
        \o LastChars(row.chatbot_response, L)

(* C11: in the truncating (SQLite) variant, for every output_limit L >= 0  *)
(* and every stored response r, the context renders the response as the    *)
(* last min(L, len(r)) characters of r, never more than L characters.      *)
(* Stated whatever stands between the two halves of a line.                *)
C11_ResponseCapped ==
    (lastOp.op = "fetch" /\ lastOp.outcome = "ok" /\ backend = "sqlite") =>
        \E gap \in {<<>>, <<" ">>} :
            lastOp.context =
                Join([i \in DOMAIN lastOp.rows |->
                         CappedLine(lastOp.rows[i], output_limit, gap)],
                     <<"\n">>)

(* C12: the persisted history is append-only: after every step the history *)
(* has the history before the step as a prefix; no operation modifies or   *)
(* removes an exchange already written.                                    *)
C12_AppendOnly ==
    [][/\ Len(table') >= Len(table)
       /\ SubSeq(table', 1, Len(table)) = table]_vars

(* A second request has appended its exchange behind the first one's *)
C12_Witness ==
    /\ entry \in {"main", "fastapi"}
    /\ Len(table) = 2
    /\ \E w \in Slots :
          /\ req[w].pc = "responded"
          /\ req[w].status = 200
          /\ req[w].row_id = table[2].id

(* What every fetch of the store would return *)
FetchResults(t) ==
    [s \in Sessions, k \in 1..MaxFetch |->
        FetchRecent(backend, t, s, k, output_limit, "ok")]

(* C14: initialize is idempotent: a call of it, the first or a later one,  *)
(* between any other operations, leaves the store as it was; on a store    *)
(* that holds exchanges it changes none of them and fetch returns the same *)
(* before and after.                                                       *)
C14_InitIdempotent ==
    [][lastOp'.op = "init" =>
          /\ table' = table
          /\ FetchResults(table') = FetchResults(table)]_vars

(* initialize was called, and succeeded, on a store that holds exchanges *)
C14_Witness ==
    /\ lastOp.op = "init"
    /\ ~lastOp.raised
    /\ Len(table) >= 1

(* Request w was answered with 500, and not because its question was      *)
(* refused                                                                 *)
FailedOtherThanValidation(w) ==
    /\ req[w].pc = "responded"
    /\ req[w].status = 500
    /\ ~QuestionRejected(req[w].question)

(* C13: for every failure other than a validation failure (model backend   *)
(* error, storage error, unclassified error) the 500 response carries only *)
(* a fixed generic message: no text of the internal exception reaches the  *)
(* caller.                                                                 *)
C13_OpaqueFailure ==
    \A w \in Slots :
        FailedOtherThanValidation(w) => req[w].detail = "generic"

(* The place of a step in the order of the request's steps; the logging of *)
(* app.main.chat stands between the append and the response                *)
Stage(pc) ==
    CASE pc = "idle" -> 0
      [] pc = "received" -> 1
      [] pc = "validating" -> 2
      [] pc = "fetching_context" -> 3
      [] pc = "invoking_model" -> 4
      [] pc = "persisting" -> 5
      [] pc = "logging" -> 6
      [] pc = "responded" -> 7

Calls(r) == r.fetch_calls + r.model_calls + r.save_calls

(* One step of the request in slot w: it moves to the next step or to      *)
(* responded; the fetch comes before the model call and the model call     *)
(* before the append; a step makes the call of its own stage at most; a    *)
(* step that fails ends in responded, and nothing runs after responded.    *)
StepInOrder(w) ==
    LET r == req[w]
        n == req'[w]
    IN  /\ n.pc # r.pc =>
              IF r.pc \in {"idle", "responded"} THEN n.pc = "received"
              ELSE n.pc = "responded" \/ Stage(n.pc) = Stage(r.pc) + 1
        /\ (n.pc = r.pc /\ r.pc = "responded") => n = r
        /\ (r.pc \notin {"idle", "responded"}) =>
              /\ n.fetch_calls > r.fetch_calls =>
                    (r.pc = "fetching_context" /\ r.model_calls = 0 /\ r.save_calls = 0)
              /\ n.model_calls > r.model_calls =>
                    (r.pc = "invoking_model" /\ r.fetch_calls = 1 /\ r.save_calls = 0)
              /\ n.save_calls > r.save_calls =>
                    (r.pc = "persisting" /\ r.fetch_calls = 1 /\ r.model_calls = 1)
              /\ Calls(n) <= Calls(r) + 1
              /\ n.status \notin {0, 200} => n.pc = "responded"

(* C15: every request passes through its steps only in the order received, *)
(* validating, fetching_context, invoking_model, persisting, responded:    *)
(* the fetch precedes the model invocation, which precedes the append; a   *)
(* failure in any step moves directly to responded without executing any   *)
(* later step; and every request eventually reaches responded.             *)
C15_RequestOrder ==
    /\ [][\A w \in Slots : StepInOrder(w)]_vars
    /\ \A w \in Slots : (req[w].pc = "received") ~> (req[w].pc = "responded")

(* A request went through every step and was answered, and another failed  *)
(* at its model call and was answered without an append                    *)
C15_Witness ==
    \E w, v \in Slots :
        /\ req[w].pc = "responded" /\ req[w].status = 200
        /\ req[w].fetch_calls = 1 /\ req[w].model_calls = 1 /\ req[w].save_calls = 1
        /\ req[v].pc = "responded" /\ req[v].status # 200
        /\ req[v].model_calls = 1 /\ req[v].save_calls = 0

(* The append of request w was attempted and stored nothing *)
AppendFailed(w) ==
    /\ req[w].pc = "responded"
    /\ req[w].save_calls = 1
    /\ req[w].row_id = 0

(* C16: within one request the model is invoked at most once and the       *)
(* append is executed at most once; nothing is retried, so one request     *)
(* adds at most one exchange, and a failed append is observed by the       *)
(* caller as a failure.                                                    *)
C16_SingleAttempt ==
    /\ \A w \in Slots :
          /\ req[w].model_calls <= 1
          /\ req[w].save_calls <= 1
          /\ AppendFailed(w) => req[w].status # 200
    /\ entry # "adapter" => Len(table) <= started

(* C17: in at least one of the two request-handling variants (here the     *)
(* async one), when the append fails after the model call has succeeded    *)
(* the request still returns the generated answer with HTTP 200.           *)
C17_PersistFailureStillAnswers ==
    \A w \in Slots :
        (entry = "fastapi" /\ AppendFailed(w) /\ req[w].model_calls = 1) =>
            /\ req[w].status = 200
            /\ Truthy(req[w].response)

(* An async request whose append failed has been answered *)
C17_Witness ==
    \E w \in Slots :
        /\ entry = "fastapi"
        /\ AppendFailed(w)
        /\ req[w].model_calls = 1
        /\ Len(table) = 0

(* Request w succeeded: it was answered with 200 and its append stored a   *)
(* row                                                                     *)
Succeeded(w) ==
    /\ req[w].pc = "responded"
    /\ req[w].status = 200
    /\ req[w].row_id # 0

(* The history holds the exchange of request w, once *)
HoldsExchangeOnce(w) ==
    /\ Cardinality({i \in DOMAIN table : table[i].id = req[w].row_id}) = 1
    /\ \E i \in DOMAIN table :
          /\ table[i].id = req[w].row_id
          /\ table[i].user_input = req[w].question
          /\ table[i].chatbot_response = req[w].response.value

(* C18: two requests of the same session run with no locking and their     *)
(* fetch and append steps interleave in any way, also both fetching before *)
(* either appends; whenever both succeed (each answered with 200, its      *)
(* append done) the history holds both exchanges, each exactly once: none  *)
(* is lost or overwritten.                                                 *)
C18_ConcurrentAppendsBothKept ==
    \A w, v \in Slots :
        (/\ w # v
         /\ req[w].session_id = req[v].session_id
         /\ Succeeded(w) /\ Succeeded(v)) =>
            /\ req[w].row_id # req[v].row_id
            /\ HoldsExchangeOnce(w)
            /\ HoldsExchangeOnce(v)

(* Both requests of one session fetched the empty history, neither seeing  *)
(* the other's exchange, and both succeeded                                *)
C18_Witness ==
    \E w, v \in Slots :
        /\ w # v
        /\ req[w].session_id = req[v].session_id
        /\ Succeeded(w) /\ Succeeded(v)
        /\ req[w].saw_none /\ ~req[w].fetch_failed
        /\ req[v].saw_none /\ ~req[v].fetch_failed
        /\ Len(table) = 2

(* C19: a request adds its exchange to the persisted history if and only   *)
(* if it is answered with 200; a request answered with 400 or 500 leaves   *)
(* the history unchanged, also when the CSV or MLflow logging after the    *)
(* append fails or rejects an empty response. Stated of app.main.          *)
C19_ExchangeIffOk ==
    \A w \in Slots :
        (entry = "main" /\ req[w].pc = "responded") =>
            (req[w].row_id # 0 <=> req[w].status = 200)

(* C20: validation precedes every side effect: for a request whose         *)
(* question is empty or only whitespace, neither the fetch, nor the model  *)
(* call, nor the append is ever executed.                                  *)
C20_ValidationFirst ==
    \A w \in Slots :
        (req[w].pc # "idle" /\ IsBlank(req[w].question)) =>
            /\ req[w].fetch_calls = 0
            /\ req[w].model_calls = 0
            /\ req[w].save_calls = 0
            /\ req[w].row_id = 0

(* A whitespace-only question reached the check of generate_response and   *)
(* was refused there                                                       *)
C20_Witness ==
    \E w \in Slots :
        /\ req[w].pc = "responded"
        /\ req[w].question = <<" ">>
        /\ req[w].detail = "validation"
        /\ req[w].status # 422

(* C21: in the per-call-connection modules (SQLite, MySQL Workbench,       *)
(* PostgreSQL, AWS RDS) every connection opened by initialize, append or   *)
(* fetch is closed by the time the call returns or raises, on the success  *)
(* path and on every failure path: no open connection outlives its call.   *)
C21_ConnectionsClosed ==
    backend \in SqlBackends =>
        /\ lastOp.op \in {"init", "save", "fetch"} => lastOp.conns_open = 0
        /\ \A w \in Slots : req[w].conns_open = 0

====
